---- MODULE Spec2Model ----
(***************************************************************************)
(* Model of dashboard.py: the module-level script, load_data (the cleaning *)
(* pipeline), the sidebar filter of main and the four aggregation/plot     *)
(* functions.                                                              *)
(*                                                                         *)
(* Text is a sequence of one-character strings, so that strip, lower,      *)
(* title, float() and strptime() are computed character by character.      *)
(* A float is [k, neg, whole, frac]: k is "fin", "inf" or "nan"; a finite  *)
(* value is whole + frac / FracUnit, negated when neg.                     *)
(***************************************************************************)
EXTENDS Integers, Sequences, FiniteSets, TLC

\* ------------------------------------------------------------------ text

Digits == <<"0", "1", "2", "3", "4", "5", "6", "7", "8", "9">>

LowerLetters ==
  <<"a", "b", "c", "d", "e", "f", "g", "h", "i", "j", "k", "l", "m",
    "n", "o", "p", "q", "r", "s", "t", "u", "v", "w", "x", "y", "z">>

UpperLetters ==
  <<"A", "B", "C", "D", "E", "F", "G", "H", "I", "J", "K", "L", "M",
    "N", "O", "P", "Q", "R", "S", "T", "U", "V", "W", "X", "Y", "Z">>

Range(s) == {s[i] : i \in 1..Len(s)}

IndexOf(c, s) == CHOOSE i \in 1..Len(s) : s[i] = c

IsDigit(c) == c \in Range(Digits)

DigitVal(c) == IndexOf(c, Digits) - 1

IsUpper(c) == c \in Range(UpperLetters)

IsLower(c) == c \in Range(LowerLetters)

IsAlpha(c) == IsUpper(c) \/ IsLower(c)

IsSpace(c) == c \in {" ", "\t"}

ToLower(c) == IF IsUpper(c) THEN LowerLetters[IndexOf(c, UpperLetters)] ELSE c

ToUpper(c) == IF IsLower(c) THEN UpperLetters[IndexOf(c, LowerLetters)] ELSE c

\* str.lower()
Lower(s) == [i \in 1..Len(s) |-> ToLower(s[i])]

\* str.title(): a letter is upper-cased when the character before it is not a
\* letter, lower-cased otherwise; other characters are kept.
Title(s) ==
  [i \in 1..Len(s) |->
     IF ~IsAlpha(s[i]) THEN s[i]
     ELSE IF i = 1 \/ ~IsAlpha(s[i - 1]) THEN ToUpper(s[i]) ELSE ToLower(s[i])]

RECURSIVE LStrip(_)
LStrip(s) == IF s # <<>> /\ IsSpace(Head(s)) THEN LStrip(Tail(s)) ELSE s

RECURSIVE RStrip(_)
RStrip(s) ==
  IF s # <<>> /\ IsSpace(s[Len(s)]) THEN RStrip(SubSeq(s, 1, Len(s) - 1)) ELSE s

\* str.strip()
Strip(s) == RStrip(LStrip(s))

\* str.replace(c, '') for a one-character c
RemoveChar(s, c) == SelectSeq(s, LAMBDA x : x # c)

\* the `in` operator on strings: t is a substring of s
Contains(s, t) ==
  \E i \in 0..(Len(s) - Len(t)) : SubSeq(s, i + 1, i + Len(t)) = t

AllDigits(s) == \A i \in 1..Len(s) : IsDigit(s[i])

RECURSIVE DigitsToInt(_)
DigitsToInt(s) ==
  IF s = <<>> THEN 0
  ELSE 10 * DigitsToInt(SubSeq(s, 1, Len(s) - 1)) + DigitVal(s[Len(s)])

RECURSIVE Pow10(_)
Pow10(n) == IF n = 0 THEN 1 ELSE 10 * Pow10(n - 1)

\* n written with at least w digits, zero-padded on the left
RECURSIVE IntToDigits(_, _)
IntToDigits(n, w) ==
  IF n < 10 /\ w <= 1 THEN <<Digits[n + 1]>>
  ELSE Append(IntToDigits(n \div 10, w - 1), Digits[(n % 10) + 1])

\* ---------------------------------------------------------------- floats

\* 1_000_000 in `float(x) / 1_000_000`
Million == 1000000

\* decimal digits of a raw amount that the model keeps after the point
FracDigits == 2

\* a finite float is whole + frac / FracUnit, with 0 <= frac < FracUnit
FracUnit == Million * Pow10(FracDigits)

NaN == [k |-> "nan", neg |-> FALSE, whole |-> 0, frac |-> 0]

Inf(n) == [k |-> "inf", neg |-> n, whole |-> 0, frac |-> 0]

Fin(n, w, f) == [k |-> "fin", neg |-> n, whole |-> w, frac |-> f]

IsNaN(a) == a.k = "nan"

\* position of a float on the number line, compared lexicographically
Rank(a) ==
  IF a.k = "inf" THEN <<(IF a.neg THEN -1 ELSE 1), 0, 0>>
  ELSE <<0, (IF a.neg THEN -a.whole ELSE a.whole), (IF a.neg THEN -a.frac ELSE a.frac)>>

\* a < b on floats; every comparison with NaN is false
FLess(a, b) ==
  /\ ~IsNaN(a)
  /\ ~IsNaN(b)
  /\ LET x == Rank(a)
         y == Rank(b)
     IN \/ x[1] < y[1]
        \/ x[1] = y[1] /\ x[2] < y[2]
        \/ x[1] = y[1] /\ x[2] = y[2] /\ x[3] < y[3]

FEq(a, b) == ~IsNaN(a) /\ ~IsNaN(b) /\ Rank(a) = Rank(b)

FLessEq(a, b) == FLess(a, b) \/ FEq(a, b)

\* a / d for an integer d > 0
FloatDiv(a, d) ==
  IF a.k # "fin" THEN a
  ELSE LET r == a.whole % d
       IN Fin(a.neg, a.whole \div d,
              r * (FracUnit \div d) + ((r * (FracUnit % d) + a.frac) \div d))

\* a + b for finite non-negative a, b
FloatAdd(a, b) ==
  LET f == a.frac + b.frac
  IN Fin(FALSE, a.whole + b.whole + (f \div FracUnit), f % FracUnit)

\* the first FracDigits digits after the point, as a count of 1/Pow10(FracDigits)
FracOf(ds) ==
  LET kept == SubSeq(ds, 1, IF Len(ds) < FracDigits THEN Len(ds) ELSE FracDigits)
  IN DigitsToInt(kept) * Pow10(FracDigits - Len(kept)) * Million

ParseError == [k |-> "err", neg |-> FALSE, whole |-> 0, frac |-> 0]

\* the unsigned part of a float literal: digits, digits.digits, digits. or .digits
ParseUnsigned(n, s) ==
  LET dots == {i \in 1..Len(s) : s[i] = "."}
  IN IF s \in {<<"i", "n", "f">>, <<"i", "n", "f", "i", "n", "i", "t", "y">>} THEN Inf(n)
     ELSE IF s = <<"n", "a", "n">> THEN NaN
     ELSE IF dots = {} THEN
       IF s # <<>> /\ AllDigits(s) THEN Fin(n, DigitsToInt(s), 0) ELSE ParseError
     ELSE IF Cardinality(dots) > 1 THEN ParseError
     ELSE LET p == CHOOSE i \in dots : TRUE
              ip == SubSeq(s, 1, p - 1)
              fp == SubSeq(s, p + 1, Len(s))
          IN IF AllDigits(ip) /\ AllDigits(fp) /\ Len(ip) + Len(fp) > 0
             THEN Fin(n, DigitsToInt(ip), FracOf(fp))
             ELSE ParseError

\* float(s) for a string s: surrounding whitespace and case are ignored, one
\* leading sign is allowed.  (Exponents and digit-group underscores are not in
\* the alphabet of the amount cells below.)
PyFloat(s) ==
  LET t == Lower(Strip(s))
  IN IF t # <<>> /\ Head(t) \in {"+", "-"}
     THEN ParseUnsigned(Head(t) = "-", Tail(t))
     ELSE ParseUnsigned(FALSE, t)

\* ------------------------------------------------------------ clean_amount

\* a cell of the raw table is a string or a float (a missing cell is NaN)
Str(s) == [t |-> "str", s |-> s, v |-> NaN]

Num(v) == [t |-> "float", s |-> <<>>, v |-> v]

Missing == Num(NaN)

UnitTokens ==
  {<<"l", "a", "c">>, <<"l", "a", "k", "h">>, <<"c", "r">>,
   <<"u", "n", "k", "n", "o", "w", "n">>, <<"n", "/", "a">>}

\* the string an Amount cell is inspected and parsed as
AmountText(s) == Lower(Strip(RemoveChar(RemoveChar(s, ","), "$")))

\* clean_amount dividing by a thousand instead of a million
clean_amount_thousands(x) ==
  IF x.t = "str" THEN
    LET y == AmountText(x.s)
    IN IF \E u \in UnitTokens : Contains(y, u) THEN NaN
       ELSE LET f == PyFloat(y)
            IN IF f.k = "err" THEN NaN ELSE FloatDiv(f, 1000)
  ELSE FloatDiv(x.v, 1000)

\* clean_amount reading the digits a cell starts with and ignoring what follows
clean_amount_prefix(x) ==
  IF x.t = "str" THEN
    LET y == AmountText(x.s)
        n == CHOOSE k \in 0..Len(y) :
               AllDigits(SubSeq(y, 1, k)) /\ (k = Len(y) \/ ~IsDigit(y[k + 1]))
        f == PyFloat(SubSeq(y, 1, n))
    IN IF f.k = "err" THEN NaN ELSE FloatDiv(f, Million)
  ELSE FloatDiv(x.v, Million)

clean_amount(x) ==
  IF x.t = "str" THEN
    LET y == AmountText(x.s)
    IN IF \E u \in UnitTokens : Contains(y, u) THEN NaN
       ELSE LET f == PyFloat(y)
            IN IF f.k = "err" THEN NaN ELSE FloatDiv(f, Million)
  ELSE FloatDiv(x.v, Million)

\* -------------------------------------------------------------- clean_date

NaT == [y |-> 0, m |-> 0, d |-> 0]

IsLeap(y) == (y % 4 = 0 /\ y % 100 # 0) \/ y % 400 = 0

DaysInMonth(y, m) ==
  IF m = 2 THEN (IF IsLeap(y) THEN 29 ELSE 28)
  ELSE IF m \in {4, 6, 9, 11} THEN 30 ELSE 31

NonZeroDigit(c) == IsDigit(c) /\ c # "0"

\* %d : 3[0-1] | [1-2]\d | 0[1-9] | [1-9] | " "[1-9]
MatchDay(t) ==
  \/ Len(t) = 2 /\ t[1] = "3" /\ t[2] \in {"0", "1"}
  \/ Len(t) = 2 /\ t[1] \in {"1", "2"} /\ IsDigit(t[2])
  \/ Len(t) = 2 /\ t[1] \in {"0", " "} /\ NonZeroDigit(t[2])
  \/ Len(t) = 1 /\ NonZeroDigit(t[1])

\* %m : 1[0-2] | 0[1-9] | [1-9]
MatchMonth(t) ==
  \/ Len(t) = 2 /\ t[1] = "1" /\ t[2] \in {"0", "1", "2"}
  \/ Len(t) = 2 /\ t[1] = "0" /\ NonZeroDigit(t[2])
  \/ Len(t) = 1 /\ NonZeroDigit(t[1])

\* %Y : \d\d\d\d
MatchYear(t) == Len(t) = 4 /\ AllDigits(t)

\* the ways s splits as <day>/<month>/<year> with nothing left over
DateSplits(s) ==
  {p \in {1, 2} \X {1, 2} :
     /\ Len(s) = p[1] + p[2] + 6
     /\ s[p[1] + 1] = "/"
     /\ s[p[1] + p[2] + 2] = "/"
     /\ MatchDay(SubSeq(s, 1, p[1]))
     /\ MatchMonth(SubSeq(s, p[1] + 2, p[1] + p[2] + 1))
     /\ MatchYear(SubSeq(s, p[1] + p[2] + 3, Len(s)))}

\* strptime with the format '%m/%d/%Y': the month is read first
strptime_month_first(s) ==
  LET splits ==
        {p \in {1, 2} \X {1, 2} :
           /\ Len(s) = p[1] + p[2] + 6
           /\ s[p[1] + 1] = "/"
           /\ s[p[1] + p[2] + 2] = "/"
           /\ MatchMonth(SubSeq(s, 1, p[1]))
           /\ MatchDay(SubSeq(s, p[1] + 2, p[1] + p[2] + 1))
           /\ MatchYear(SubSeq(s, p[1] + p[2] + 3, Len(s)))}
  IN IF splits = {} THEN NaT
     ELSE LET p == CHOOSE q \in splits : TRUE
              m == DigitsToInt(SubSeq(s, 1, p[1]))
              d == DigitsToInt(LStrip(SubSeq(s, p[1] + 2, p[1] + p[2] + 1)))
              y == DigitsToInt(SubSeq(s, p[1] + p[2] + 3, Len(s)))
          IN IF y >= 1 /\ d <= DaysInMonth(y, m) THEN [y |-> y, m |-> m, d |-> d] ELSE NaT

\* datetime.strptime(s, '%d/%m/%Y'); NaT stands for the ValueError
strptime(s) ==
  IF DateSplits(s) = {} THEN NaT
  ELSE LET p == CHOOSE q \in DateSplits(s) : TRUE
           d == DigitsToInt(LStrip(SubSeq(s, 1, p[1])))
           m == DigitsToInt(SubSeq(s, p[1] + 2, p[1] + p[2] + 1))
           y == DigitsToInt(SubSeq(s, p[1] + p[2] + 3, Len(s)))
       IN IF y >= 1 /\ d <= DaysInMonth(y, m) THEN [y |-> y, m |-> m, d |-> d] ELSE NaT

\* str(d) of a cell: a missing cell prints as "nan"
CellStr(x) == IF x.t = "str" THEN x.s ELSE <<"n", "a", "n">>

clean_date(x) == strptime(Strip(CellStr(x)))

\* --------------------------------------------------------------- load_data

\* the positions `data.iloc[:, [13, 14, 15, 17, 19, 20]]` selects (0-indexed)
ColumnPositions == <<13, 14, 15, 17, 19, 20>>

ColumnNames == <<"Date", "Startup Name", "Sector", "City", "Investment Type", "Amount">>

TextColumns == <<"Sector", "City", "Investment Type", "Startup Name">>

\* a missing or unreadable merged.csv.csv
NoFile == [exists |-> FALSE, ncols |-> 0, rows |-> <<>>]

\* pd.read_csv: the frame read, or the exception
read_csv(file) == IF file.exists THEN [ok |-> TRUE, data |-> file] ELSE [ok |-> FALSE, data |-> NoFile]

\* positional selection raises IndexError when a position is out of bounds
ilocRaises(data) == \E i \in 1..Len(ColumnPositions) : ColumnPositions[i] >= data.ncols

\* the six selected columns under their new labels; "index" is the row label
iloc(data) ==
  [i \in 1..Len(data.rows) |->
     [c \in Range(ColumnNames) \cup {"index"} |->
        IF c = "index" THEN i - 1
        ELSE data.rows[i][ColumnPositions[IndexOf(c, ColumnNames)] + 1]]]

Zero == Fin(FALSE, 0, 0)

\* lines 66-68: clean, drop the missing amounts, keep the positive ones
AmountStep(frame) ==
  LET cleaned == [i \in 1..Len(frame) |-> [frame[i] EXCEPT !["Amount"] = clean_amount(@)]]
      present == SelectSeq(cleaned, LAMBDA r : ~IsNaN(r["Amount"]))
  IN SelectSeq(present, LAMBDA r : FLess(Zero, r["Amount"]))

\* Period('M') printed: YYYY-MM
PeriodStr(d) == IntToDigits(d.y, 4) \o <<"-">> \o IntToDigits(d.m, 2)

\* lines 77-80: parse, drop the unparsed dates, derive Year and Month
DateStep(frame) ==
  LET parsed == [i \in 1..Len(frame) |-> [frame[i] EXCEPT !["Date"] = clean_date(@)]]
      present == SelectSeq(parsed, LAMBDA r : r["Date"] # NaT)
  IN [i \in 1..Len(present) |->
        present[i] @@ ("Year" :> present[i]["Date"].y)
                   @@ ("Month" :> PeriodStr(present[i]["Date"]))]

Other == <<"O", "t", "h", "e", "r">>

\* .replace({'Nan': 'Other', 'N/A': 'Other'}): whole-value match
NanToOther(s) == IF s \in {<<"N", "a", "n">>, <<"N", "/", "A">>} THEN Other ELSE s

\* str.capitalize(): only the first character is upper-cased
Capitalize(s) == [i \in 1..Len(s) |-> IF i = 1 THEN ToUpper(s[i]) ELSE ToLower(s[i])]

\* clean_text with str.capitalize() in the place of str.title()
clean_text_capitalize(x) == NanToOther(Capitalize(Strip(CellStr(x))))

\* .astype(str).str.strip().str.title().replace(...)
clean_text(x) == NanToOther(Title(Strip(CellStr(x))))

Bengaluru == <<"B", "e", "n", "g", "a", "l", "u", "r", "u">>

Bangalore == <<"B", "a", "n", "g", "a", "l", "o", "r", "e">>

NewDelhi == <<"N", "e", "w", " ", "D", "e", "l", "h", "i">>

Delhi == <<"D", "e", "l", "h", "i">>

Gurugram == <<"G", "u", "r", "u", "g", "r", "a", "m">>

Gurgaon == <<"G", "u", "r", "g", "a", "o", "n">>

Hydrabad == <<"H", "y", "d", "r", "a", "b", "a", "d">>

Hyderabad == <<"H", "y", "d", "e", "r", "a", "b", "a", "d">>

SeedAngelSpaced ==
  <<"S", "e", "e", "d", "/", " ", "A", "n", "g", "e", "l", " ", "F", "u", "n", "d", "i", "n", "g">>

SeedAngel ==
  <<"S", "e", "e", "d", "/", "A", "n", "g", "e", "l", " ", "F", "u", "n", "d", "i", "n", "g">>

\* lines 88-93
city_alias(s) ==
  IF s = Bengaluru THEN Bangalore
  ELSE IF s = NewDelhi THEN Delhi
  ELSE IF s = Gurugram THEN Gurgaon
  ELSE IF s = Hydrabad THEN Hyderabad
  ELSE s

\* line 94
investment_alias(s) == IF s = SeedAngelSpaced THEN SeedAngel ELSE s

\* lines 83-87: the loop over the four text columns
TextLoop(frame) ==
  [i \in 1..Len(frame) |->
     [c \in DOMAIN frame[i] |->
        IF c \in Range(TextColumns) THEN clean_text(frame[i][c]) ELSE frame[i][c]]]

\* lines 83-94
TextStep(frame) ==
  LET looped == TextLoop(frame)
      cities == [i \in 1..Len(looped) |-> [looped[i] EXCEPT !["City"] = city_alias(@)]]
  IN [i \in 1..Len(cities) |->
        [cities[i] EXCEPT !["Investment Type"] = investment_alias(@)]]

\* 1000 in `df['Amount'] < 1000`
OutlierCutoff == 1000

\* the cutoff with <= in the place of <
CutoffStepInclusive(frame) ==
  SelectSeq(frame, LAMBDA r : FLessEq(r["Amount"], Fin(FALSE, OutlierCutoff, 0)))

\* line 95
CutoffStep(frame) == SelectSeq(frame, LAMBDA r : FLess(r["Amount"], Fin(FALSE, OutlierCutoff, 0)))

\* lines 77-80 take the .dt accessor of the Date column; when no row is left
\* after line 68 the column has no datetime dtype to give one
DateStepMayRaise(frame) == AmountStep(frame) = <<>>

\* lines 66-96 on the six-column frame
clean_frame(frame) == CutoffStep(TextStep(DateStep(AmountStep(frame))))

LoadError == "Couldn't load 'merged.csv.csv'."

ColumnMismatch == "Column mismatch. Please check your CSV format."

\* load_data swallowing the column mismatch without st.error
load_data_silent(file) ==
  LET got == read_csv(file)
  IN IF ~got.ok THEN [df |-> <<>>, msgs |-> {LoadError}]
     ELSE IF ilocRaises(got.data) THEN [df |-> <<>>, msgs |-> {}]
     ELSE [df |-> clean_frame(iloc(got.data)), msgs |-> {}]

\* load_data(): the frame returned and the st.error messages shown
load_data(file) ==
  LET got == read_csv(file)
  IN IF ~got.ok THEN [df |-> <<>>, msgs |-> {LoadError}]
     ELSE IF ilocRaises(got.data) THEN [df |-> <<>>, msgs |-> {ColumnMismatch}]
     ELSE [df |-> clean_frame(iloc(got.data)), msgs |-> {}]

\* whether load_data(file) reaches lines 79-80 with an emptied Date column
load_data_may_raise(file) ==
  LET got == read_csv(file)
  IN got.ok /\ ~ilocRaises(got.data) /\ DateStepMayRaise(iloc(got.data))

\* ------------------------------------------------------------------ inputs

\* Date cells: day/month/year in several spellings, and cells that are no date
DateCells ==
  {Str(<<"0", "4", "/", "0", "1", "/", "2", "0", "1", "5">>),
   Str(<<"4", "/", "1", "/", "2", "0", "1", "5">>),
   Str(<<" ", "0", "4", "/", "0", "1", "/", "2", "0", "1", "5", " ">>),
   Str(<<"0", "4", "-", "0", "1", "-", "2", "0", "1", "5">>),
   Str(<<"2", "0", "1", "5", "/", "0", "1", "/", "0", "4">>),
   Str(<<"0", "1", "/", "1", "3", "/", "2", "0", "1", "5">>),
   Str(<<"1", "3", "/", "0", "1", "/", "2", "0", "1", "6">>),
   Str(<<"3", "1", "/", "0", "2", "/", "2", "0", "1", "5">>),
   Str(<<"2", "9", "/", "0", "2", "/", "2", "0", "1", "6">>),
   Str(<<"a", "b", "c">>),
   Str(<<"0", "4", "/", "0", "1", "/", "1", "5">>),
   Str(<<"0", "4", "/", "0", "1", "/", "0", "0", "0", "0">>),
   Missing}

\* Amount cells: plain numbers, formatted numbers, unit and unknown markers
AmountCells ==
  {Str(<<"1", "0", "0", "0", "0", "0", "0">>),
   Str(<<"0">>),
   Str(<<"-", "5", "0", "0", "0", "0", "0", "0">>),
   Str(<<"1", "0", "0", "0", "0", "0", "0", "0", "0", "0">>),
   Str(<<"9", "9", "9", "9", "9", "9", "9", "9", "9">>),
   Str(<<"2", "5", "0", "0", "0", "0", "0", ".", "7", "5">>),
   Str(<<"2", "0", "0", "0", "0", "0", "0", "0", "0", "0">>),
   Str(<<"1", ",", "0", "0", "0", ",", "0", "0", "0">>),
   Str(<<"$", "2", ",", "0", "0", "0", ",", "0", "0", "0">>),
   Str(<<" ", "3", "0", "0", "0", "0", "0", "0", " ">>),
   Str(<<"5", " ", "l", "a", "c">>),
   Str(<<"1", "0", " ", "L", "A", "K", "H">>),
   Str(<<"2", " ", "C", "r">>),
   Str(<<"U", "n", "k", "n", "o", "w", "n">>),
   Str(<<"N", "/", "A">>),
   Str(<<"5", "0", "0", "0", "0", "0", "0", " ", "n", "/", "a">>),
   Str(<<"u", "n", "d", "i", "s", "c", "l", "o", "s", "e", "d">>),
   Str(<<"i", "n", "f">>),
   Str(<<"n", "a", "n">>),
   Missing, Num(Fin(FALSE, 1000000, 0)), Num(Fin(FALSE, 0, 0))}

NameCells ==
  {Str(<<"A", "B", "C", " ", "T", "e", "c", "h">>),
   Str(<<"f", "l", "i", "p", "k", "a", "r", "t">>),
   Str(<<" ", "F", "l", "i", "p", "k", "a", "r", "t", " ">>),
   Str(<<"n", "/", "a">>),
   Missing}

SectorCells ==
  {Str(<<"T", "e", "c", "h">>),
   Str(<<"e", "-", "c", "o", "m", "m", "e", "r", "c", "e">>),
   Str(<<"n", "a", "n">>)}

CityCells ==
  {Str(<<"B", "e", "n", "g", "a", "l", "u", "r", "u">>),
   Str(<<"b", "e", "n", "g", "a", "l", "u", "r", "u">>),
   Str(<<"N", "e", "w", " ", "D", "e", "l", "h", "i">>),
   Str(<<"G", "u", "r", "u", "g", "r", "a", "m">>),
   Str(<<"H", "y", "d", "r", "a", "b", "a", "d">>),
   Str(<<"M", "u", "m", "b", "a", "i">>),
   Str(<<"b", "e", "n", "g", "a", "l", "u", "r", "u", " ", "c", "i", "t", "y">>),
   Str(<<" ", "B", "E", "N", "G", "A", "L", "U", "R", "U", " ">>),
   Str(<<"N", "/", "A">>),
   Missing}

TypeCells ==
  {Str(<<"S", "e", "e", "d", "/", " ", "A", "n", "g", "e", "l", " ", "F", "u", "n", "d", "i", "n", "g">>),
   Str(<<"s", "e", "e", "d", "/", " ", "a", "n", "g", "e", "l", " ", "f", "u", "n", "d", "i", "n", "g">>),
   Str(<<"P", "r", "i", "v", "a", "t", "e", " ", "E", "q", "u", "i", "t", "y">>),
   Str(<<"S", "e", "e", "d", "/", " ", "A", "n", "g", "e", "l", " ", "F", "u", "n", "d", "i", "n", "g", " ", "R", "o", "u", "n", "d">>),
   Missing}

\* the row of the end-to-end example
ExampleRow ==
  <<Str(<<"0", "4", "/", "0", "1", "/", "2", "0", "1", "5">>), Str(<<"A", "B", "C", " ", "T", "e", "c", "h">>), Str(<<"T", "e", "c", "h">>),
    Str(<<"B", "e", "n", "g", "a", "l", "u", "r", "u">>), Str(<<"S", "e", "e", "d", "/", " ", "A", "n", "g", "e", "l", " ", "F", "u", "n", "d", "i", "n", "g">>), Str(<<"1", "0", "0", "0", "0", "0", "0">>)>>

\* rows of the tables with several rows: three kept rows (Bangalore, Mumbai,
\* Delhi), one rejected for its amount, one for its date, one dropped at the cutoff
CoreRows ==
  <<ExampleRow,
   <<Str(<<"1", "3", "/", "0", "1", "/", "2", "0", "1", "6">>), Str(<<"f", "l", "i", "p", "k", "a", "r", "t">>), Str(<<"e", "-", "c", "o", "m", "m", "e", "r", "c", "e">>),
    Str(<<"M", "u", "m", "b", "a", "i">>), Str(<<"P", "r", "i", "v", "a", "t", "e", " ", "E", "q", "u", "i", "t", "y">>), Str(<<"2", ",", "5", "0", "0", ",", "0", "0", "0">>)>>,
   <<Str(<<"4", "/", "1", "/", "2", "0", "1", "5">>), Str(<<"P", "a", "y", "t", "m">>), Str(<<"F", "i", "n", "t", "e", "c", "h">>),
    Str(<<"N", "e", "w", " ", "D", "e", "l", "h", "i">>), Str(<<"P", "r", "i", "v", "a", "t", "e", " ", "E", "q", "u", "i", "t", "y">>), Str(<<"3", "0", "0", "0", "0", "0", "0">>)>>,
   <<Str(<<"0", "4", "/", "0", "1", "/", "2", "0", "1", "5">>), Str(<<"O", "l", "a">>), Str(<<"T", "r", "a", "n", "s", "p", "o", "r", "t">>),
    Str(<<"D", "e", "l", "h", "i">>), Str(<<"S", "e", "e", "d", "/", " ", "A", "n", "g", "e", "l", " ", "F", "u", "n", "d", "i", "n", "g">>), Str(<<"5", " ", "l", "a", "c">>)>>,
   <<Str(<<"2", "0", "1", "5", "/", "0", "1", "/", "0", "4">>), Str(<<"Z", "o", "m", "a", "t", "o">>), Str(<<"F", "o", "o", "d">>),
    Str(<<"G", "u", "r", "u", "g", "r", "a", "m">>), Str(<<"P", "r", "i", "v", "a", "t", "e", " ", "E", "q", "u", "i", "t", "y">>), Str(<<"4", "0", "0", "0", "0", "0", "0">>)>>,
   <<Str(<<"2", "9", "/", "0", "2", "/", "2", "0", "1", "6">>), Str(<<"F", "l", "i", "p", "k", "a", "r", "t">>), Str(<<"E", "-", "C", "o", "m", "m", "e", "r", "c", "e">>),
    Str(<<"b", "e", "n", "g", "a", "l", "u", "r", "u">>), Str(<<"P", "r", "i", "v", "a", "t", "e", " ", "E", "q", "u", "i", "t", "y">>), Str(<<"1", "0", "0", "0", "0", "0", "0", "0", "0", "0">>)>>>>

\* rows of the one-row tables: every date with every amount, and the text cells
\* in their combinations
SingleRows ==
  {<<d, ExampleRow[2], ExampleRow[3], ExampleRow[4], ExampleRow[5], a>> :
     d \in DateCells, a \in AmountCells}
  \cup {<<ExampleRow[1], ExampleRow[2], ExampleRow[3], c, i, ExampleRow[6]>> :
     c \in CityCells, i \in TypeCells}
  \cup {<<ExampleRow[1], n, s, ExampleRow[4], ExampleRow[5], ExampleRow[6]>> :
     n \in NameCells, s \in SectorCells}

\* most rows of a table with several rows
MaxRows == 4

\* the column counts of the raw tables: one short of the last position, exact, wider
ColumnCounts == {20, 21, 22}

Filler == Str(<<"x">>)

\* a raw row of n columns holding the six cells c at the selected positions
MkRow(n, c) ==
  [p \in 1..n |->
     IF \E i \in 1..Len(ColumnPositions) : ColumnPositions[i] = p - 1
     THEN c[CHOOSE i \in 1..Len(ColumnPositions) : ColumnPositions[i] = p - 1]
     ELSE Filler]

\* the rows of CoreRows at the positions I, in their order
Pick(I) ==
  [k \in 1..Cardinality(I) |->
     CoreRows[CHOOSE x \in I : Cardinality({y \in I : y < x}) = k - 1]]

CellRows ==
  {<<r>> : r \in SingleRows}
  \cup {Pick(I) : I \in {J \in SUBSET (1..Len(CoreRows)) : Cardinality(J) <= MaxRows}}

MkTable(n, rs) == [exists |-> TRUE, ncols |-> n, rows |-> [i \in 1..Len(rs) |-> MkRow(n, rs[i])]]

RawFiles == {NoFile} \cup {MkTable(n, rs) : n \in ColumnCounts, rs \in CellRows}

\* ------------------------------------------------------------- aggregation

RECURSIVE FloatSum(_)
FloatSum(xs) == IF xs = <<>> THEN Zero ELSE FloatAdd(Head(xs), FloatSum(Tail(xs)))

Column(frame, col) == [i \in 1..Len(frame) |-> frame[i][col]]

\* Series.mean(): NaN for an empty series
Mean(xs) == IF xs = <<>> THEN NaN ELSE FloatDiv(FloatSum(xs), Len(xs))

\* the first position of value x in the sequence xs
FirstAt(xs, x) == CHOOSE i \in 1..Len(xs) : xs[i] = x /\ \A j \in 1..(i - 1) : xs[j] # x

\* the members of S in the order of before, a strict total order on S given as
\* the set of its pairs
Sorted(S, before) ==
  [i \in 1..Cardinality(S) |->
     CHOOSE x \in S : Cardinality({y \in S : <<y, x>> \in before}) = i - 1]

\* lines 100-102
kpis_of(frame) ==
  [total_funding |-> FloatSum(Column(frame, "Amount")),
   total_startups |-> Cardinality(Range(Column(frame, "Startup Name"))),
   avg_funding |-> Mean(Column(frame, "Amount"))]

\* pd.to_datetime(month, errors='coerce') of a YYYY-MM string: the first of the month
to_datetime(s) ==
  IF Len(s) = 7 /\ s[5] = "-" /\ AllDigits(SubSeq(s, 1, 4)) /\ AllDigits(SubSeq(s, 6, 7))
     /\ DigitsToInt(SubSeq(s, 6, 7)) \in 1..12 /\ DigitsToInt(SubSeq(s, 1, 4)) >= 1
  THEN [y |-> DigitsToInt(SubSeq(s, 1, 4)), m |-> DigitsToInt(SubSeq(s, 6, 7)), d |-> 1]
  ELSE NaT

\* line 125: the Month_dt column is assigned on the frame passed in
with_month_dt(frame) ==
  [i \in 1..Len(frame) |-> ("Month_dt" :> to_datetime(frame[i]["Month"])) @@ frame[i]]

DateBefore(a, b) ==
  \/ a.y < b.y
  \/ a.y = b.y /\ a.m < b.m
  \/ a.y = b.y /\ a.m = b.m /\ a.d < b.d

\* the total Amount of the rows whose column col is key
GroupTotal(frame, col, key) ==
  FloatSum(Column(SelectSeq(frame, LAMBDA r : r[col] = key), "Amount"))

\* line 126: groupby('Month_dt')['Amount'].sum(), in key order, NaT keys left out
time_df_of(frame) ==
  LET months == Range(Column(frame, "Month_dt")) \ {NaT}
      keys == Sorted(months, {p \in months \X months : DateBefore(p[1], p[2])})
  IN [i \in 1..Len(keys) |->
        [Month_dt |-> keys[i], Amount |-> GroupTotal(frame, "Month_dt", keys[i])]]

\* 10 in `.nlargest(10)`
TopN == 10

\* line 166: value_counts().nlargest(10); equal counts in order of first appearance
city_df_of(frame) ==
  LET cities == Column(frame, "City")
      count(c) == Cardinality({i \in 1..Len(cities) : cities[i] = c})
      before(a, b) ==
        \/ count(a) > count(b)
        \/ count(a) = count(b) /\ FirstAt(cities, a) < FirstAt(cities, b)
      ranked == Sorted(Range(cities), {p \in Range(cities) \X Range(cities) : before(p[1], p[2])})
      kept == SubSeq(ranked, 1, IF Len(ranked) < TopN THEN Len(ranked) ELSE TopN)
  IN [i \in 1..Len(kept) |-> [City |-> kept[i], DealCount |-> count(kept[i])]]

\* line 200: groupby('Investment Type')['Amount'].sum() sorted by Amount, largest
\* first; equal totals in order of first appearance
pie_df_of(frame) ==
  LET types == Column(frame, "Investment Type")
      total(k) == GroupTotal(frame, "Investment Type", k)
      before(a, b) ==
        \/ FLess(total(b), total(a))
        \/ FEq(total(a), total(b)) /\ FirstAt(types, a) < FirstAt(types, b)
      ranked == Sorted(Range(types), {p \in Range(types) \X Range(types) : before(p[1], p[2])})
  IN [i \in 1..Len(ranked) |-> [InvestmentType |-> ranked[i], Amount |-> total(ranked[i])]]

\* the filter with Series.between(..., inclusive='neither')
filter_rows_exclusive(frame, years, cities, funding) ==
  SelectSeq(frame, LAMBDA r :
    /\ r["Year"] >= years[1]
    /\ r["Year"] <= years[2]
    /\ r["City"] \in cities
    /\ FLess(funding[1], r["Amount"])
    /\ FLess(r["Amount"], funding[2]))

\* lines 244-249: the rows inside the year range, the city selection and the
\* funding range, both ends of each range included
filter_rows(frame, years, cities, funding) ==
  SelectSeq(frame, LAMBDA r :
    /\ r["Year"] >= years[1]
    /\ r["Year"] <= years[2]
    /\ r["City"] \in cities
    /\ FLessEq(funding[1], r["Amount"])
    /\ FLessEq(r["Amount"], funding[2]))

\* ------------------------------------------------------------------- state

VARIABLES
  entry,            \* "script": the file is run; "call": main() is called
  file,             \* merged.csv.csv
  pc,               \* position in the script or in main
  cache,            \* the st.cache_data entry of load_data
  df,               \* main's df
  year_range,       \* the "Year Range" slider
  selected_cities,  \* the "Select Cities" multiselect
  funding_range,    \* the "Funding Amount" slider
  filtered_df,      \* main's filtered_df
  ui,               \* st.error / st.warning messages shown in this run
  called,           \* the aggregation functions called in this run
  kpis,             \* display_kpis' three figures
  time_df,          \* plot_funding_trend's time_df
  city_df,          \* plot_top_cities' city_df
  pie_df,           \* plot_investment_pie's pie_df
  mainCalls         \* times main() was entered in this run

vars ==
  <<entry, file, pc, cache, df, year_range, selected_cities, funding_range,
    filtered_df, ui, called, kpis, time_df, city_df, pie_df, mainCalls>>

EmptyCache == [set |-> FALSE, df |-> <<>>, msgs |-> {}]

NoRange == <<>>

NoData == "No data matches your filters."

\* the names bound in the module's namespace when line 270 is evaluated
ModuleNames ==
  {"__name__", "__file__", "__builtins__", "st", "pd", "np", "px", "datetime",
   "load_data", "display_kpis", "plot_funding_trend", "plot_top_cities",
   "plot_investment_pie", "main"}

\* what each name is bound to; the file is run as the main program
Namespace == [n \in ModuleNames |-> IF n = "__name__" THEN "__main__" ELSE "object"]

\* the name line 270 reads and the string it is compared with
GuardName == "_name_"

GuardValue == "_main_"

RunStart == [script |-> "module", call |-> "main"]

Init ==
  /\ entry \in {"script", "call"}
  /\ file \in RawFiles
  /\ pc = RunStart[entry]
  /\ cache = EmptyCache
  /\ df = <<>>
  /\ year_range = NoRange
  /\ selected_cities = {}
  /\ funding_range = NoRange
  /\ filtered_df = <<>>
  /\ ui = {}
  /\ called = {}
  /\ kpis = <<>>
  /\ time_df = <<>>
  /\ city_df = <<>>
  /\ pie_df = <<>>
  /\ mainCalls = 0

\* lines 8-37: page configuration and CSS; lines 40-268 bind the functions
ModuleInit ==
  /\ pc = "module"
  /\ pc' = "guard"
  /\ UNCHANGED <<entry, file, cache, df, year_range, selected_cities, funding_range,
                 filtered_df, ui, called, kpis, time_df, city_df, pie_df, mainCalls>>

\* lines 270-271: reading an unbound name raises NameError and the run ends
\* there; otherwise main() is called when the comparison holds
EntryGuard ==
  /\ pc = "guard"
  /\ pc' = IF GuardName \notin DOMAIN Namespace THEN "NameError"
           ELSE IF Namespace[GuardName] = GuardValue THEN "main"
           ELSE "returned"
  /\ UNCHANGED <<entry, file, cache, df, year_range, selected_cities, funding_range,
                 filtered_df, ui, called, kpis, time_df, city_df, pie_df, mainCalls>>

\* lines 219-233: the title, load_data() through its cache, the empty check
MainLoad ==
  /\ pc = "main"
  /\ mainCalls' = mainCalls + 1
  /\ \E raised \in (IF ~cache.set /\ load_data_may_raise(file) THEN BOOLEAN ELSE {FALSE}) :
       IF raised
       THEN /\ pc' = "load_raised"
            /\ UNCHANGED <<cache, df, ui>>
       ELSE LET got == IF cache.set THEN cache ELSE load_data(file)
            IN /\ cache' = [set |-> TRUE, df |-> got.df, msgs |-> got.msgs]
               /\ df' = got.df
               /\ ui' = ui \cup got.msgs
               /\ pc' = IF got.df = <<>> THEN "returned" ELSE "sidebar"
  /\ UNCHANGED <<entry, file, year_range, selected_cities, funding_range, filtered_df,
                 called, kpis, time_df, city_df, pie_df>>

Years(frame) == Range(Column(frame, "Year"))

Amounts(frame) == Range(Column(frame, "Amount"))

\* default=['Bangalore', 'Mumbai', 'Delhi'] of the multiselect
DefaultCities == {Bangalore, <<"M", "u", "m", "b", "a", "i">>, Delhi}

\* the widgets are sure to take their arguments: the defaults are among the
\* options and each slider has a lower bound below its upper bound
WidgetsAccept(frame) ==
  /\ DefaultCities \subseteq Range(Column(frame, "City"))
  /\ Cardinality(Years(frame)) > 1
  /\ Cardinality(Amounts(frame)) > 1

\* lines 236-242: the widgets return what the user has set, inside their bounds;
\* a widget given a default outside its options, or equal bounds, may instead
\* refuse its arguments with an exception
SidebarFilters ==
  /\ pc = "sidebar"
  /\ \E refused \in (IF WidgetsAccept(df) THEN {FALSE} ELSE BOOLEAN) :
       IF refused
       THEN /\ pc' = "widget_raised"
            /\ UNCHANGED <<year_range, selected_cities, funding_range>>
       ELSE LET min_year == CHOOSE y \in Years(df) : \A z \in Years(df) : y <= z
                max_year == CHOOSE y \in Years(df) : \A z \in Years(df) : z <= y
                all_cities == Range(Column(df, "City"))
            IN /\ \E lo \in min_year..max_year : \E hi \in lo..max_year :
                    year_range' = <<lo, hi>>
               /\ selected_cities' \in SUBSET all_cities
               /\ \E lo \in Amounts(df) : \E hi \in Amounts(df) :
                    /\ FLessEq(lo, hi)
                    /\ funding_range' = <<lo, hi>>
               /\ pc' = "filter"
  /\ UNCHANGED <<entry, file, cache, df, filtered_df, ui, called, kpis, time_df,
                 city_df, pie_df, mainCalls>>

\* ApplyFilter without the `if filtered_df.empty` return of lines 254-256
ApplyFilterUnguarded ==
  /\ pc = "filter"
  /\ filtered_df' = filter_rows(df, year_range, selected_cities, funding_range)
  /\ ui' = ui
  /\ pc' = "kpis"
  /\ UNCHANGED <<entry, file, cache, df, year_range, selected_cities, funding_range,
                 called, kpis, time_df, city_df, pie_df, mainCalls>>

\* lines 244-256: the filter, the count line, the return when nothing is left
ApplyFilter ==
  /\ pc = "filter"
  /\ filtered_df' = filter_rows(df, year_range, selected_cities, funding_range)
  /\ IF filtered_df' = <<>>
     THEN ui' = ui \cup {NoData} /\ pc' = "returned"
     ELSE ui' = ui /\ pc' = "kpis"
  /\ UNCHANGED <<entry, file, cache, df, year_range, selected_cities, funding_range,
                 called, kpis, time_df, city_df, pie_df, mainCalls>>

\* line 258
DisplayKpis ==
  /\ pc = "kpis"
  /\ kpis' = <<kpis_of(filtered_df)>>
  /\ called' = called \cup {"display_kpis"}
  /\ pc' = "trend"
  /\ UNCHANGED <<entry, file, cache, df, year_range, selected_cities, funding_range,
                 filtered_df, ui, time_df, city_df, pie_df, mainCalls>>

\* line 262
PlotFundingTrend ==
  /\ pc = "trend"
  /\ filtered_df' = with_month_dt(filtered_df)
  /\ time_df' = time_df_of(filtered_df')
  /\ called' = called \cup {"plot_funding_trend"}
  /\ pc' = "cities"
  /\ UNCHANGED <<entry, file, cache, df, year_range, selected_cities, funding_range,
                 ui, kpis, city_df, pie_df, mainCalls>>

\* line 264
PlotTopCities ==
  /\ pc = "cities"
  /\ city_df' = city_df_of(filtered_df)
  /\ called' = called \cup {"plot_top_cities"}
  /\ pc' = "pie"
  /\ UNCHANGED <<entry, file, cache, df, year_range, selected_cities, funding_range,
                 filtered_df, ui, kpis, time_df, pie_df, mainCalls>>

\* lines 266-268
PlotInvestmentPie ==
  /\ pc = "pie"
  /\ pie_df' = pie_df_of(filtered_df)
  /\ called' = called \cup {"plot_investment_pie"}
  /\ pc' = "returned"
  /\ UNCHANGED <<entry, file, cache, df, year_range, selected_cities, funding_range,
                 filtered_df, ui, kpis, time_df, city_df, mainCalls>>

\* the positions at which a run has ended: main returned, or an exception
Ended == {"returned", "load_raised", "widget_raised", "NameError"}

\* a widget interaction runs the script (or main) again; only the cache is kept
Rerun ==
  /\ pc \in Ended
  /\ pc' = RunStart[entry]
  /\ df' = <<>>
  /\ year_range' = NoRange
  /\ selected_cities' = {}
  /\ funding_range' = NoRange
  /\ filtered_df' = <<>>
  /\ ui' = {}
  /\ called' = {}
  /\ kpis' = <<>>
  /\ time_df' = <<>>
  /\ city_df' = <<>>
  /\ pie_df' = <<>>
  /\ mainCalls' = 0
  /\ UNCHANGED <<entry, file, cache>>

Next ==
  \/ ModuleInit
  \/ EntryGuard
  \/ MainLoad
  \/ SidebarFilters
  \/ ApplyFilter
  \/ DisplayKpis
  \/ PlotFundingTrend
  \/ PlotTopCities
  \/ PlotInvestmentPie
  \/ Rerun

Spec == Init /\ [][Next]_vars

\* ------------------------------------------------------------------ claims

\* the raw table has the columns the extraction needs
ShapeOk == file.exists /\ file.ncols > 20

\* load_data has returned a frame for a table of the right shape
Loaded == ShapeOk /\ cache.set

Cleaned == cache.df

RawIndex == 0..(Len(file.rows) - 1)

\* the cell of the raw row labelled i at 0-indexed position p
RawCell(i, p) == file.rows[i + 1][p + 1]

RawDate(i) == RawCell(i, 13)

RawAmount(i) == RawCell(i, 20)

RawSix(i) ==
  <<RawCell(i, 13), RawCell(i, 14), RawCell(i, 15), RawCell(i, 17), RawCell(i, 19),
    RawCell(i, 20)>>

RecordsOf(i) == {k \in 1..Len(Cleaned) : Cleaned[k]["index"] = i}

InCleaned(i) == RecordsOf(i) # {}

RecordOf(i) == Cleaned[CHOOSE k \in RecordsOf(i) : TRUE]

ValidDate(d) == d.y >= 1 /\ d.m \in 1..12 /\ d.d >= 1 /\ d.d <= DaysInMonth(d.y, d.m)

\* the amount a is a number with 0 < a < 1000
InRange(a) ==
  a.k = "fin" /\ ~a.neg /\ (a.whole > 0 \/ a.frac > 0) /\ a.whole < 1000

\* C1: every record of the cleaned dataset load_data returns has an amount
\* strictly between 0 and 1000 (never missing) and a parsed, valid date.
C1_CleanedInvariant ==
  cache.set =>
    \A k \in 1..Len(Cleaned) :
      /\ InRange(Cleaned[k]["Amount"])
      /\ ValidDate(Cleaned[k]["Date"])
      /\ Cleaned[k]["Year"] = Cleaned[k]["Date"].y

\* a table of several rows was cleaned: some rows kept, some dropped
C1_Witness == Loaded /\ Len(Cleaned) >= 1 /\ Len(Cleaned) < Len(file.rows)

\* s is a plain number: an optional sign, digits, at most one decimal point
IsPlainNumeric(s) ==
  LET body == IF s # <<>> /\ Head(s) \in {"+", "-"} THEN Tail(s) ELSE s
  IN /\ \E i \in 1..Len(body) : IsDigit(body[i])
     /\ \A i \in 1..Len(body) : IsDigit(body[i]) \/ body[i] = "."
     /\ Cardinality({i \in 1..Len(body) : body[i] = "."}) <= 1

PlainAmount(i) == RawAmount(i).t = "str" /\ IsPlainNumeric(RawAmount(i).s)

\* a * 1,000,000 for an amount a in millions
TimesMillion(a) ==
  LET per == FracUnit \div Million
  IN Fin(a.neg, a.whole * Million + (a.frac \div per), (a.frac % per) * Million)

\* C2: a row with a valid date and a plain numeric Amount string of value v is in
\* the cleaned dataset iff 0 < v / 1,000,000 < 1000 (0, negatives and exactly
\* 1000 million are dropped), and its cleaned amount is then v / 1,000,000.
C2_PlainAmount ==
  Loaded =>
    \A i \in RawIndex :
      (PlainAmount(i) /\ clean_date(RawDate(i)) # NaT) =>
        LET v == PyFloat(RawAmount(i).s)
        IN /\ InCleaned(i) <=>
                (~v.neg /\ (v.whole > 0 \/ v.frac > 0) /\ v.whole < 1000 * Million)
           /\ InCleaned(i) => TimesMillion(RecordOf(i)["Amount"]) = v

\* one plain amount was kept and another, of exactly 1000 million, dropped
C2_Witness ==
  /\ Loaded
  /\ \E i \in RawIndex : PlainAmount(i) /\ InCleaned(i)
  /\ \E i \in RawIndex :
       /\ PlainAmount(i)
       /\ clean_date(RawDate(i)) # NaT
       /\ PyFloat(RawAmount(i).s) = Fin(FALSE, 1000 * Million, 0)
       /\ ~InCleaned(i)

\* the cell is a string of exactly the shape DD/MM/YYYY
ExactDMY(x) ==
  /\ x.t = "str"
  /\ Len(x.s) = 10
  /\ \A j \in 1..10 : IF j \in {3, 6} THEN x.s[j] = "/" ELSE IsDigit(x.s[j])

\* s is day/month/year: a day and a month of one or two digits, a year of four,
\* separated by "/", naming a day of the calendar
LooseDMY(s) ==
  \E a \in 2..3 : \E b \in (a + 2)..(a + 3) :
    /\ Len(s) = b + 4
    /\ s[a] = "/"
    /\ s[b] = "/"
    /\ AllDigits(SubSeq(s, 1, a - 1))
    /\ AllDigits(SubSeq(s, a + 1, b - 1))
    /\ AllDigits(SubSeq(s, b + 1, b + 4))
    /\ ValidDate([y |-> DigitsToInt(SubSeq(s, b + 1, b + 4)),
                  m |-> DigitsToInt(SubSeq(s, a + 1, b - 1)),
                  d |-> DigitsToInt(SubSeq(s, 1, a - 1))])

Jan4 == Str(<<"0", "4", "/", "0", "1", "/", "2", "0", "1", "5">>)

\* C3 as stated: every row whose Date cell is not exactly DD/MM/YYYY is dropped.
C3_ExactFormatOnly ==
  Loaded => \A i \in RawIndex : ~ExactDMY(RawDate(i)) => ~InCleaned(i)

\* C3 amended: every row whose Date cell, with surrounding whitespace removed, is
\* not a calendar day written day/month/year (day and month of one or two
\* digits, year of four) is dropped; "04/01/2015" is read as 4 January 2015.
C3_DayMonthYear ==
  Loaded =>
    \A i \in RawIndex :
      /\ ~LooseDMY(Strip(CellStr(RawDate(i)))) => ~InCleaned(i)
      /\ (RawDate(i) = Jan4 /\ InCleaned(i)) =>
           RecordOf(i)["Date"] = [y |-> 2015, m |-> 1, d |-> 4]

\* a row with a good amount was dropped for its date, and "04/01/2015" was kept
C3_Witness ==
  /\ Loaded
  /\ \E i \in RawIndex :
       /\ ~LooseDMY(Strip(CellStr(RawDate(i))))
       /\ InRange(clean_amount(RawAmount(i)))
       /\ ~InCleaned(i)
  /\ \E i \in RawIndex : RawDate(i) = Jan4 /\ InCleaned(i)

\* the cell is text that contains one of the tokens, whatever the case
HasUnitToken(x) == x.t = "str" /\ \E u \in UnitTokens : Contains(Lower(x.s), u)

ShapeBad == file.exists /\ file.ncols <= 20

\* C5: when the raw table lacks the columns, the load fails as a whole: main is
\* told through the error message and the empty frame, returns at once, and no
\* partial dataset, filter or aggregation follows.
C5_SchemaMismatchTerminal ==
  (ShapeBad /\ mainCalls > 0) =>
    /\ pc = "returned"
    /\ ColumnMismatch \in ui
    /\ df = <<>>
    /\ cache.df = <<>>
    /\ year_range = NoRange
    /\ filtered_df = <<>>
    /\ called = {}

\* main has loaded a table of too few columns that has rows in it
C5_Witness == ShapeBad /\ mainCalls > 0 /\ Len(file.rows) >= 1

Passes(r) ==
  /\ year_range[1] <= r["Year"]
  /\ r["Year"] <= year_range[2]
  /\ r["City"] \in selected_cities
  /\ ~FLess(r["Amount"], funding_range[1])
  /\ ~FLess(funding_range[2], r["Amount"])

\* the filter has just run: display_kpis is next, or main returned on "no data"
Filtered == pc = "kpis" \/ (pc = "returned" /\ NoData \in ui)

\* C6: the filter keeps a record of the cleaned dataset iff its year is within
\* the year range, its city is selected and its amount is within the funding
\* range (all ends included); no other record is kept, none is altered.
C6_FilterExact ==
  Filtered =>
    /\ \A k \in 1..Len(df) : (df[k] \in Range(filtered_df)) <=> Passes(df[k])
    /\ \A k \in 1..Len(filtered_df) : filtered_df[k] \in Range(df)
    /\ Len(filtered_df) = Cardinality({k \in 1..Len(df) : Passes(df[k])})

\* a record at the upper end of the funding range was kept and another dropped
C6_Witness ==
  /\ pc = "kpis"
  /\ WidgetsAccept(df)
  /\ Len(filtered_df) < Len(df)
  /\ \E k \in 1..Len(filtered_df) : filtered_df[k]["Amount"] = funding_range[2]

Aggregating == pc \in {"kpis", "trend", "cities", "pie"}

\* C7: the aggregation calls are read-only: across each of them the cleaned
\* dataset and the record subset passed hold the same records with the same
\* fields.  (Stated for the runs whose widgets are sure to take their arguments.)
C7_AggregationReadOnly ==
  [][(Aggregating /\ WidgetsAccept(df)) =>
       (filtered_df' = filtered_df /\ df' = df /\ cache' = cache)]_vars

\* C8: display_kpis (the average) and the chart aggregations are only called on
\* a non-empty subset; on an empty filtered view main returns without them.
C8_NonEmptyAggregation ==
  /\ Aggregating => filtered_df # <<>>
  /\ kpis # <<>> => ~IsNaN(kpis[1].avg_funding)
  /\ NoData \in ui => (pc = "returned" /\ called = {} /\ kpis = <<>>)

\* the filtered view was empty and main returned after the warning
C8_Witness ==
  NoData \in ui /\ WidgetsAccept(df) /\ filtered_df = <<>> /\ pc = "returned"

CityAliases ==
  {<<Bengaluru, Bangalore>>, <<NewDelhi, Delhi>>, <<Gurugram, Gurgaon>>,
   <<Hydrabad, Hyderabad>>}

TypeAliases == {<<SeedAngelSpaced, SeedAngel>>}

\* t, or the target of the alias whose source is exactly t
Aliased(t, table) ==
  IF \E a \in table : a[1] = t THEN (CHOOSE a \in table : a[1] = t)[2] ELSE t

\* the cleaned text of the raw cell x in column col
ExpectedText(x, col) ==
  LET t == Title(Strip(CellStr(x)))
      u == IF t \in {<<"N", "a", "n">>, <<"N", "/", "A">>} THEN Other ELSE t
  IN IF col = "City" THEN Aliased(u, CityAliases)
     ELSE IF col = "Investment Type" THEN Aliased(u, TypeAliases)
     ELSE u

ExampleRecord(i) ==
  [c \in {"index", "Date", "Startup Name", "Sector", "City", "Investment Type",
          "Amount", "Year", "Month"} |->
     CASE c = "index" -> i
       [] c = "Date" -> [y |-> 2015, m |-> 1, d |-> 4]
       [] c = "Startup Name" -> <<"A", "b", "c", " ", "T", "e", "c", "h">>
       [] c = "Sector" -> <<"T", "e", "c", "h">>
       [] c = "City" -> Bangalore
       [] c = "Investment Type" -> SeedAngel
       [] c = "Amount" -> Fin(FALSE, 1, 0)
       [] c = "Year" -> 2015
       [] c = "Month" -> <<"2", "0", "1", "5", "-", "0", "1">>]

\* C9: the example row yields exactly one record: 2015-01-04, "Abc Tech",
\* "Tech", "Bangalore", "Seed/Angel Funding", 1.0; and every text field of every
\* record is the raw cell trimmed and title-cased, with "Nan" and "N/A" turned
\* into "Other" and the City / Investment Type alias applied once to the whole
\* title-cased text.
C9_EndToEnd ==
  Loaded =>
    /\ \A i \in RawIndex :
         RawSix(i) = ExampleRow =>
           (Cardinality(RecordsOf(i)) = 1 /\ RecordOf(i) = ExampleRecord(i))
    /\ \A k \in 1..Len(Cleaned) :
         LET i == Cleaned[k]["index"]
         IN /\ Cleaned[k]["Startup Name"] = ExpectedText(RawCell(i, 14), "Startup Name")
            /\ Cleaned[k]["Sector"] = ExpectedText(RawCell(i, 15), "Sector")
            /\ Cleaned[k]["City"] = ExpectedText(RawCell(i, 17), "City")
            /\ Cleaned[k]["Investment Type"] = ExpectedText(RawCell(i, 19), "Investment Type")

\* the example row was cleaned in a table that also holds another kept row
C9_Witness ==
  /\ Loaded
  /\ \E i \in RawIndex : RawSix(i) = ExampleRow /\ InCleaned(i)
  /\ \E k \in 1..Len(Cleaned) : Cleaned[k]["City"] # Bangalore

\* C10: a run of the file as the main program enters main() exactly once.
C10_ScriptEntersMain == (entry = "script" /\ pc \in Ended) => mainCalls = 1

====
